---- MODULE Spec2Model ----
(***************************************************************************)
(* Model of rear/src/modeling_rankllama.py: the ranking loss LossForRank   *)
(* (pairwise term `fine`, pointwise term `coarse`, their sum `bi`) and the *)
(* scoring head LlamaForRear (`_additional_init`, `forward`, `ans`,        *)
(* `rel_eval`).                                                            *)
(*                                                                         *)
(* Tensors of floats are modelled exactly: a float is an extended rational *)
(* (a fraction, +inf, -inf or nan) with IEEE rules for inf and nan, and    *)
(* every value used is a dyadic or small decimal fraction whose            *)
(* comparisons do not depend on rounding.  Python's None is PyNone.  An    *)
(* operation that raises yields the exception's name in `raised`.          *)
(***************************************************************************)
EXTENDS Integers, Sequences, FiniteSets, TLC

\* ------------------------------------------------------------------ bounds

\* largest number of examples in a batch handed to the ranking loss
MaxBatch == 4
\* largest candidate-group size (psg_num) a ranking loss is constructed with
MaxPsg == 2
\* largest number of token sequences in a batch handed to the head
MaxSeqs == 2
\* number of token positions of every sequence
SeqLen == 3

\* ------------------------------------------------------- floats and None

Abs(x) == IF x < 0 THEN -x ELSE x

RECURSIVE Gcd(_, _)
Gcd(a, b) == IF b = 0 THEN a ELSE Gcd(b, a % b)

\* the fraction n/d (d # 0) in lowest terms with a positive denominator
Num(n, d) ==
    LET s == IF d < 0 THEN -1 ELSE 1
        g == Gcd(Abs(n), Abs(d))
    IN  [k |-> "num", n |-> (s * n) \div g, d |-> (s * d) \div g]

NaN == [k |-> "nan", n |-> 0, d |-> 1]
PosInf == [k |-> "inf", n |-> 1, d |-> 1]
NegInf == [k |-> "inf", n |-> -1, d |-> 1]
PyNone == [k |-> "None", n |-> 0, d |-> 1]
Zero == Num(0, 1)
Half == Num(1, 2)

Sign(a) == IF a.n > 0 THEN 1 ELSE IF a.n < 0 THEN -1 ELSE 0
Inf(s) == IF s > 0 THEN PosInf ELSE NegInf

FNeg(a) == IF a.k = "nan" THEN NaN ELSE [a EXCEPT !.n = -a.n]

FAdd(a, b) ==
    IF a.k = "nan" \/ b.k = "nan" THEN NaN
    ELSE IF a.k = "inf" /\ b.k = "inf" THEN (IF a.n = b.n THEN a ELSE NaN)
    ELSE IF a.k = "inf" THEN a
    ELSE IF b.k = "inf" THEN b
    ELSE Num(a.n * b.d + b.n * a.d, a.d * b.d)

FSub(a, b) == FAdd(a, FNeg(b))

FMul(a, b) ==
    IF a.k = "nan" \/ b.k = "nan" THEN NaN
    ELSE IF a.k = "inf" \/ b.k = "inf"
         THEN (IF Sign(a) * Sign(b) = 0 THEN NaN ELSE Inf(Sign(a) * Sign(b)))
    ELSE Num(a.n * b.n, a.d * b.d)

\* a / c for a count c >= 0 (0/0 is nan, x/0 is an infinity)
FDiv(a, c) ==
    IF a.k = "nan" THEN NaN
    ELSE IF a.k = "inf" THEN a
    ELSE IF c = 0 THEN (IF a.n = 0 THEN NaN ELSE Inf(a.n))
    ELSE Num(a.n, a.d * c)

\* a > b; every comparison with nan is false
FGt(a, b) ==
    IF a.k = "nan" \/ b.k = "nan" THEN FALSE
    ELSE IF a.k = "inf" THEN a.n > 0 /\ b # PosInf
    ELSE IF b.k = "inf" THEN b.n < 0
    ELSE a.n * b.d > b.n * a.d

FGe(a, b) == IF a.k = "nan" \/ b.k = "nan" THEN FALSE ELSE FGt(a, b) \/ a = b

isinf(a) == a.k = "inf"

RECURSIVE FSum(_)
FSum(s) == IF s = <<>> THEN Zero ELSE FAdd(Head(s), FSum(Tail(s)))

\* the outcome of a call: a value, or the name of the exception raised
Ok(v) == [raised |-> "none", value |-> v]
Raise(e) == [raised |-> e, value |-> PyNone]

\* t[m]: the elements of the flat tensor t at which the boolean mask m is true
Masked(t, m) ==
    LET Keep(i) == m[i]
        idx == SelectSeq([i \in 1..Len(t) |-> i], Keep)
    IN  [c \in 1..Len(idx) |-> t[idx[c]]]

\* --------------------------------------------------------- LossForRank

\* log(1 + exp(-a)) for an integer a >= 0, in thousandths (rounded)
Log1pExpNeg(a) ==
    CASE a = 0 -> 693 [] a = 1 -> 313 [] a = 2 -> 127 [] a = 3 -> 49
      [] a = 4 -> 18 [] a = 5 -> 7 [] a = 6 -> 2 [] a = 7 -> 1 [] OTHER -> 0

\* F.binary_cross_entropy_with_logits on one element: for the integral logit x
\* and target y in {0, 1}, max(x, 0) - x*y + log(1 + exp(-|x|))
BceWithLogits(x, y) ==
    Num(1000 * ((IF x > 0 THEN x ELSE 0) - x * y) + Log1pExpNeg(Abs(x)), 1000)

\* self.compute_loss(input, target, reduction): the sum of the elementwise
\* losses, divided by the number of elements under the default "mean"
compute_loss(input, target, reduction) ==
    LET total == FSum([c \in 1..Len(input) |-> BceWithLogits(input[c], target[c])])
    IN  IF reduction = "sum" THEN total ELSE FDiv(total, Len(input))

LossForRankParams == {"is_warm_up", "bias", "psg_num", "ignore_minor_diff", "bce_bias"}

LossForRankDefaults ==
    [is_warm_up |-> FALSE, bias |-> Num(1, 1), psg_num |-> 4,
     ignore_minor_diff |-> Zero, bce_bias |-> Half]

\* what the class defines: the names an attribute lookup on an instance finds
\* besides the attributes __init__ has assigned
LossForRankMethods == {"__init__", "__call__", "bi", "fine", "coarse"}

\* LossForRank(**kwargs): binds the keywords to __init__'s parameters, assigns
\* the attributes, then looks up self.bce or self.bi
LossForRank(kwargs) ==
    IF ~(DOMAIN kwargs \subseteq LossForRankParams) THEN Raise("TypeError")
    ELSE LET a == [p \in LossForRankParams |->
                     IF p \in DOMAIN kwargs THEN kwargs[p] ELSE LossForRankDefaults[p]]
             assigned == {"bias", "compute_loss", "psg_num", "ignore_minor_diff", "bce_bias"}
             wanted == IF a["is_warm_up"] THEN "bce" ELSE "bi"
         IN  IF wanted \notin (LossForRankMethods \cup assigned)
             THEN Raise("AttributeError")
             ELSE Ok([class |-> "LossForRank", bias |-> a["bias"],
                      psg_num |-> a["psg_num"],
                      ignore_minor_diff |-> a["ignore_minor_diff"],
                      bce_bias |-> a["bce_bias"], loss_fn |-> wanted])

\* t.view(-1, cols): rows of cols elements, indexed from 0; the view of a
\* tensor whose size is no multiple of cols raises
view(t, cols) ==
    IF Len(t) % cols # 0 THEN Raise("RuntimeError")
    ELSE Ok([g \in 0..(Len(t) \div cols) - 1 |->
               [i \in 0..cols - 1 |-> t[g * cols + i + 1]]])

\* list(product(range(n), repeat=2)): the ordered pairs in product order
document_pairs_candidates(n) ==
    [c \in 1..n * n |-> <<(c - 1) \div n, (c - 1) % n>>]

\* the_mask without the test for an infinite difference
the_mask_no_isinf(true_diff, ignore_minor_diff) ==
    FGt(true_diff, ignore_minor_diff)

\* the_mask with >= in place of >
the_mask_ge(true_diff, ignore_minor_diff) ==
    FGe(true_diff, ignore_minor_diff) /\ ~isinf(true_diff)

\* one element of the_mask
the_mask(true_diff, ignore_minor_diff) ==
    FGt(true_diff, ignore_minor_diff) /\ ~isinf(true_diff)

\* The pairwise term.  `pairs` lists the kept (group, i, j) in the row-major
\* order of the boolean selection; pred_diffs and true_diffs are the two
\* tensors handed to compute_loss.
fine(self, scores, labels) ==
    LET y_pred == view(scores, self.psg_num)
        y_true == view(labels, self.psg_num)
    IN  IF y_pred.raised # "none" THEN y_pred
        ELSE IF y_true.raised # "none" THEN y_true
        ELSE
        LET cand == document_pairs_candidates(self.psg_num)
            groups == Len(scores) \div self.psg_num
            np == Len(cand)
            cells == [c \in 1..groups * np |->
                        <<(c - 1) \div np, cand[((c - 1) % np) + 1][1],
                          cand[((c - 1) % np) + 1][2]>>]
            TrueDiff(e) == FSub(y_true.value[e[1]][e[2]], y_true.value[e[1]][e[3]])
            PredDiff(e) == y_pred.value[e[1]][e[2]] - y_pred.value[e[1]][e[3]]
            Kept(e) == the_mask(TrueDiff(e), self.ignore_minor_diff)
            pairs == SelectSeq(cells, Kept)
            pred_diffs == [c \in 1..Len(pairs) |-> PredDiff(pairs[c])]
            true_diffs == [c \in 1..Len(pairs) |->
                             IF FGt(TrueDiff(pairs[c]), Zero) THEN 1 ELSE 0]
        IN  Ok([loss |-> compute_loss(pred_diffs, true_diffs, "mean"),
                pairs |-> pairs, pred_diffs |-> pred_diffs, true_diffs |-> true_diffs])

\* the pointwise term with the negative sub-term under the guard of the positive one
coarse_one_guard(self, scores, labels) ==
    LET classes == [i \in 1..Len(labels) |-> FGe(labels[i], Half)]
        pos_scores == Masked(scores, classes)
        neg_scores == Masked(scores, [i \in 1..Len(labels) |-> ~classes[i]])
        loss == IF Len(pos_scores) # 0
                THEN FAdd(compute_loss(pos_scores, [c \in 1..Len(pos_scores) |-> 1], "sum"),
                          FMul(self.bias,
                               compute_loss(neg_scores,
                                            [c \in 1..Len(neg_scores) |-> 0], "sum")))
                ELSE Zero
    IN  Ok([loss |-> FDiv(loss, Len(scores))])

\* The pointwise term.
coarse(self, scores, labels) ==
    LET classes == [i \in 1..Len(labels) |-> FGe(labels[i], Half)]
        pos_scores == Masked(scores, classes)
        neg_scores == Masked(scores, [i \in 1..Len(labels) |-> ~classes[i]])
        loss0 == Zero
        loss1 == IF Len(pos_scores) # 0
                 THEN FAdd(loss0, compute_loss(pos_scores,
                                               [c \in 1..Len(pos_scores) |-> 1], "sum"))
                 ELSE loss0
        loss2 == IF Len(neg_scores) # 0
                 THEN FAdd(loss1, FMul(self.bias,
                                       compute_loss(neg_scores,
                                                    [c \in 1..Len(neg_scores) |-> 0], "sum")))
                 ELSE loss1
    IN  Ok([loss |-> FDiv(loss2, Len(scores))])

\* line 44: the weighted sum of the two terms, fine evaluated first
bi_sum(self, f, c) ==
    IF f.raised # "none" THEN f
    ELSE Ok([loss |-> FAdd(FMul(Half, f.value.loss), FMul(self.bce_bias, c.value.loss)),
             fine |-> f.value, coarse |-> c.value])

\* 0.5 * fine + bce_bias * coarse
bi(self, scores, labels) ==
    bi_sum(self, fine(self, scores, labels), coarse(self, scores, labels))

\* LossForRank.__call__: self.loss_fn(*args, **kwargs)
call(self, scores, labels) ==
    IF self.loss_fn = "bi" THEN bi(self, scores, labels)
    ELSE Raise("AttributeError")

\* ---------------------------------------------------------- LlamaForRear

\* defaults of _additional_init
gen_score_id == 32002
rel_token_id == 32001
irr_token_id == 32003
num_labels == 1
threshold == 13

\* an absent optional tensor argument or result (None), and a present one
NoTensor == [given |-> FALSE, from |-> "None", data |-> <<>>]
Tensor(from, data) == [given |-> TRUE, from |-> from, data |-> data]

\* the labels argument of the generation branch: None, or a label tensor,
\* which stands here for the value the cross entropy takes on it
NoLabels == [given |-> FALSE, ce |-> PyNone]
Labels(ce) == [given |-> TRUE, ce |-> ce]

\* self.model(...): the backbone, a stub whose hidden state at position t of
\* sequence b is the vector <<b, t>>, distinct for every position
model(input_ids) ==
    [b \in DOMAIN input_ids |-> [t \in DOMAIN input_ids[b] |-> <<b, t>>]]

\* the weight row of self.rel_score = nn.Linear(hidden_size, num_labels,
\* bias=False), as learned; the same row for every label
rel_score_weight == <<12, 1>>

\* self.rel_score(h): one score per label, no bias term
rel_score(weight, h) ==
    [l \in 0..num_labels - 1 |-> weight[1] * h[1] + weight[2] * h[2]]

\* an argmax that returns the index of the last maximal value
argmax_last(x) ==
    CHOOSE i \in DOMAIN x :
        /\ \A j \in DOMAIN x : x[j] <= x[i]
        /\ \A j \in DOMAIN x : j > i => x[j] < x[i]

\* x.argmax(-1) of a vector indexed from 0: the index of the first maximal value
argmax(x) ==
    CHOOSE i \in DOMAIN x :
        /\ \A j \in DOMAIN x : x[j] <= x[i]
        /\ \A j \in DOMAIN x : j < i => x[j] < x[i]

\* the fields of the dataclass RearOutput
RearOutputFields ==
    {"rel_scores", "loss", "logits", "past_key_values", "hidden_states", "attentions"}

\* a result object (or tuple) of the head: its kind and the entries the model follows
Output(kind, loss, logits, rel_scores) ==
    [kind |-> kind, loss |-> loss, logits |-> logits, rel_scores |-> rel_scores]

\* logits[mask, position, token] = value on a tensor of `dims` dimensions (batch,
\* position, vocabulary).  A boolean index stands for as many indices as it has
\* dimensions; more indices than the tensor has dimensions raise.  A mask of
\* one dimension selects the rows where it is true, which are then broadcast
\* against `position`.
index_put(logits, dims, mask, position, token, value) ==
    IF Len(mask.shape) + 2 > dims THEN Raise("IndexError")
    ELSE LET rows == {b \in DOMAIN mask.data : mask.data[b]}
             nrows == Cardinality(rows)
             npos == Cardinality(DOMAIN position)
             Nth(c) == CHOOSE b \in rows : Cardinality({a \in rows : a < b}) = c
             hit == IF nrows = npos THEN {<<Nth(c), position[c]>> : c \in 0..npos - 1}
                    ELSE IF nrows = 1 THEN {<<Nth(0), position[c]>> : c \in 0..npos - 1}
                    ELSE {<<Nth(c), position[0]>> : c \in 0..nrows - 1}
         IN  IF nrows # npos /\ nrows # 1 /\ npos # 1 THEN Raise("IndexError")
             ELSE Ok([b \in DOMAIN logits |-> [t \in DOMAIN logits[b] |->
                        [v \in DOMAIN logits[b][t] |->
                           IF <<b, t>> \in hit /\ v = token THEN value
                           ELSE logits[b][t][v]]]])

\* The generation sub-result.
ans(self, hidden_states, labels) ==
    LET logits == Tensor("lm_head", hidden_states)
        loss0 == Zero
        loss == IF labels.given THEN labels.ce ELSE loss0
    IN  Ok(Output("CausalLMOutputWithPast", loss, logits, NoTensor))

\* lines 235-237: the override logits of the score-only mode, every entry -100
\* but the two assignments
override_logits(self, input_ids, hidden_states, rel_logits, rel_position) ==
    LET shape == <<Cardinality(DOMAIN rel_logits), self.num_labels>>
        vocab == {self.rel_token_id, self.irr_token_id, self.gen_score_id}
                    \cup {input_ids[b][t] : b \in DOMAIN input_ids, t \in DOMAIN input_ids[0]}
        full == [b \in DOMAIN hidden_states |-> [t \in DOMAIN hidden_states[b] |->
                   [v \in vocab |-> -100]]]
        above == [shape |-> shape,
                  data |-> [b \in DOMAIN rel_logits |-> [l \in DOMAIN rel_logits[b] |->
                              rel_logits[b][l] > self.threshold]]]
        notabove == [shape |-> shape,
                     data |-> [b \in DOMAIN rel_logits |-> [l \in DOMAIN rel_logits[b] |->
                                 rel_logits[b][l] <= self.threshold]]]
        Second(put1) ==
            IF put1.raised # "none" THEN put1
            ELSE index_put(put1.value, 3, notabove, rel_position, self.irr_token_id, 100)
    IN  Second(index_put(full, 3, above, rel_position, self.rel_token_id, 100))

\* lines 229-246: the loss, the override logits and the returned object, given
\* the gathered scores.  rel_position and rel_hidden_states are the locals of
\* the same names, recorded beside the returned object.
rel_eval_output(self, input_ids, hidden_states, classes, rel_position, rel_hidden_states, rel_logits) ==
    LET \* the engine views and masks the (batch, 1) scores one per example
        flat == [i \in 1..Cardinality(DOMAIN rel_logits) |-> rel_logits[i - 1][0]]
        Finish(ranked, put) ==
            IF ranked.raised # "none" THEN ranked
            ELSE IF self.beta = PyNone /\ put.raised # "none" THEN put
            ELSE Ok([out |-> Output("RearOutput", ranked.value.loss,
                                    IF self.beta = PyNone THEN Tensor("override", put.value)
                                    ELSE NoTensor,
                                    Tensor("rel_score", rel_logits)),
                     rel_position |-> rel_position,
                     rel_hidden_states |-> rel_hidden_states])
    IN  Finish(IF classes.given THEN call(self.rel_eval_fn, flat, classes.data)
               ELSE Ok([loss |-> PyNone]),
               override_logits(self, input_ids, hidden_states, rel_logits, rel_position))

\* lines 225-227: the gather at rel_position and the projection to scores
rel_eval_gather(self, input_ids, hidden_states, classes, rel_position) ==
    LET batch_size == Cardinality(DOMAIN hidden_states)
        Project(rel_hidden_states) ==
            rel_eval_output(self, input_ids, hidden_states, classes, rel_position,
                            rel_hidden_states,
                            [b \in 0..batch_size - 1 |->
                               rel_score(self.rel_score, rel_hidden_states[b])])
    IN  Project([b \in 0..batch_size - 1 |-> hidden_states[b][rel_position[b]]])

\* The relevance sub-result.
rel_eval(self, input_ids, hidden_states, classes) ==
    rel_eval_gather(self, input_ids, hidden_states, classes,
                    [b \in DOMAIN input_ids |->
                       argmax([t \in DOMAIN input_ids[b] |->
                                 IF input_ids[b][t] = self.gen_score_id THEN 1 ELSE 0])])

\* lines 181-195: the combined loss and the returned tuple or object
forward_combine(self, sft_output, rank_output, return_dict) ==
    IF rank_output.raised # "none" THEN rank_output
    \* tensor + float * None
    ELSE IF rank_output.value.out.loss = PyNone THEN Raise("TypeError")
    ELSE IF ~return_dict
    THEN Ok(Output("tuple",
                   FAdd(sft_output.value.loss, FMul(self.beta, rank_output.value.out.loss)),
                   sft_output.value.logits, NoTensor))
    \* rank_output.verify_scores
    ELSE IF "verify_scores" \notin RearOutputFields THEN Raise("AttributeError")
    ELSE Ok(Output("RearOutput",
                   FAdd(sft_output.value.loss, FMul(self.beta, rank_output.value.out.loss)),
                   sft_output.value.logits, rank_output.value.out.rel_scores))

\* line 176: what forward returns is the object rel_eval returns
forward_rel_eval(r) == IF r.raised # "none" THEN r ELSE Ok(r.value.out)

\* lines 172-179: the mode selection, given the backbone's outputs
forward_select(self, input_ids, outputs, labels, classes, return_dict) ==
    IF self.beta = PyNone
    THEN IF \E t \in DOMAIN input_ids[0] :
                input_ids[0][t] \in {self.rel_token_id, self.irr_token_id}
         THEN ans(self, outputs, labels)
         ELSE forward_rel_eval(rel_eval(self, input_ids, outputs, NoTensor))
    ELSE forward_combine(self, ans(self, outputs, labels),
                         rel_eval(self, input_ids, outputs, classes), return_dict)

\* LlamaForRear.forward
forward(self, input_ids, labels, classes, return_dict) ==
    forward_select(self, input_ids, model(input_ids), labels, classes, return_dict)

\* the keyword defaults of _additional_init that the model follows
AdditionalInitDefaults ==
    [gen_score_id |-> gen_score_id, rel_token_id |-> rel_token_id,
     irr_token_id |-> irr_token_id, beta |-> Half, is_warm_up |-> FALSE,
     num_labels |-> num_labels, bias |-> Num(2, 5), psg_num |-> 4,
     ignore_mirror_diff |-> Num(1, 10), bce_bias |-> Half, threshold |-> threshold]

\* LlamaForRear._additional_init(**kwargs): the attribute assignments in
\* order; the ranking loss is constructed with the keywords of lines 130-134
additional_init(kwargs) ==
    LET a == [p \in DOMAIN AdditionalInitDefaults |->
                IF p \in DOMAIN kwargs THEN kwargs[p] ELSE AdditionalInitDefaults[p]]
        rel_eval_fn == LossForRank([is_warm_up |-> a["is_warm_up"],
                                    psg_num |-> a["psg_num"],
                                    bias |-> a["bias"],
                                    ignore_mirror_diff |-> a["ignore_mirror_diff"],
                                    bce_bias |-> a["bce_bias"]])
    IN  IF rel_eval_fn.raised # "none" THEN rel_eval_fn
        ELSE Ok([class |-> "LlamaForRear", num_labels |-> a["num_labels"],
                 beta |-> a["beta"], rel_token_id |-> a["rel_token_id"],
                 irr_token_id |-> a["irr_token_id"], rel_score |-> rel_score_weight,
                 gen_score_id |-> a["gen_score_id"], rel_eval_fn |-> rel_eval_fn.value,
                 threshold |-> a["threshold"]])

\* ------------------------------------------------------ the state machine

VARIABLES
    self,    \* the object the methods are applied to
    op,      \* the operation that ran last ("none" between operations)
    args,    \* its arguments
    raised,  \* the exception it raised, or "none"
    ret      \* what it returned

vars == <<self, op, args, raised, ret>>

NoObject == [class |-> "none"]
NoArgs == [none |-> TRUE]

\* construction arguments
BetaValues == {PyNone, Half}
MinorDiffs == {Num(-1, 2), Zero, Half}
NegativeBias == Num(2, 5)

\* relevance labels: a grade in [0, 1] or the no-signal value
LabelValues == {NegInf, Zero, Half, Num(1, 1)}

\* score batches of n examples: all scores distinct, rising or falling
ScoreBatches(n) == {[i \in 1..n |-> i], [i \in 1..n |-> 2 - i]}

\* tokens: the three sentinels and an ordinary token
OrdinaryTokens == {1}
Vocab == {gen_score_id, rel_token_id, irr_token_id} \cup OrdinaryTokens

Positions == 0..SeqLen - 1

\* batches handed to rel_eval: the relevant/irrelevant sentinels play no part
\* in it, so its rows are made of the generation-score token and an ordinary one
RelEvalBatches ==
    UNION {[0..n - 1 -> [Positions -> {gen_score_id} \cup OrdinaryTokens]] : n \in 1..MaxSeqs}

\* batches handed to forward: any first row (the only row the mode selection
\* reads); the later rows all without, or all made of, the generation-score token
ForwardBatches ==
    {[b \in 0..n - 1 |-> IF b = 0 THEN first ELSE [t \in Positions |-> rest]] :
        n \in 1..MaxSeqs, first \in [Positions -> Vocab],
        rest \in {gen_score_id} \cup OrdinaryTokens}

\* the generation labels argument: None, or labels on which the cross entropy is 2 or 7/2
LabelArgs == {NoLabels, Labels(Num(2, 1)), Labels(Num(7, 2))}

\* the relevance labels argument for n sequences: None, all 0, all 1, or alternating
ClassArgs(n) ==
    {NoTensor,
     Tensor("classes", [i \in 1..n |-> Zero]),
     Tensor("classes", [i \in 1..n |-> Num(1, 1)]),
     Tensor("classes", [i \in 1..n |-> Num(i % 2, 1)])}

\* A head as lines 119-137 assign its attributes, its ranking loss built with
\* the keyword names LossForRank.__init__ declares and one group per full batch.
HeadReceiver(beta) ==
    [class |-> "LlamaForRear", num_labels |-> num_labels, beta |-> beta,
     rel_token_id |-> rel_token_id, irr_token_id |-> irr_token_id,
     rel_score |-> rel_score_weight, gen_score_id |-> gen_score_id,
     rel_eval_fn |-> LossForRank([is_warm_up |-> FALSE, psg_num |-> MaxSeqs,
                                  bias |-> NegativeBias,
                                  ignore_minor_diff |-> Num(1, 10),
                                  bce_bias |-> Half]).value,
     threshold |-> threshold]

\* Nothing is constructed yet, or the methods of the head are applied to a
\* receiver carrying the attributes they read.
Init ==
    /\ self \in {NoObject} \cup {HeadReceiver(beta) : beta \in BetaValues}
    /\ op = "none"
    /\ args = NoArgs
    /\ raised = "none"
    /\ ret = PyNone

Idle == op = "none"

\* LossForRank(is_warm_up=..., bias=..., psg_num=..., ignore_minor_diff=..., bce_bias=...)
LossForRankInit ==
    /\ Idle
    /\ self.class = "none"
    /\ \E is_warm_up \in BOOLEAN, psg_num \in 1..MaxPsg, ignore_minor_diff \in MinorDiffs :
         LET kwargs == [is_warm_up |-> is_warm_up, bias |-> NegativeBias,
                        psg_num |-> psg_num, ignore_minor_diff |-> ignore_minor_diff,
                        bce_bias |-> Half]
             r == LossForRank(kwargs)
         IN  /\ op' = "LossForRank.__init__"
             /\ args' = kwargs
             /\ raised' = r.raised
             /\ ret' = PyNone
             /\ self' = IF r.raised = "none" THEN r.value ELSE self

\* loss_engine(scores=..., labels=...)
LossForRankCall ==
    /\ Idle
    /\ self.class = "LossForRank"
    /\ \E n \in 1..MaxBatch :
         \E scores \in ScoreBatches(n), labels \in [1..n -> LabelValues] :
           LET r == call(self, scores, labels)
           IN  /\ op' = "LossForRank.__call__"
               /\ args' = [scores |-> scores, labels |-> labels]
               /\ raised' = r.raised
               /\ ret' = r.value
               /\ UNCHANGED self

\* loss_engine.coarse(scores=..., labels=...)
LossForRankCoarse ==
    /\ Idle
    /\ self.class = "LossForRank"
    /\ \E n \in 1..MaxBatch :
         \E scores \in ScoreBatches(n), labels \in [1..n -> LabelValues] :
           LET r == coarse(self, scores, labels)
           IN  /\ op' = "LossForRank.coarse"
               /\ args' = [scores |-> scores, labels |-> labels]
               /\ raised' = r.raised
               /\ ret' = r.value
               /\ UNCHANGED self

\* LlamaForRear(config, **kwargs), as far as _additional_init
AdditionalInit ==
    /\ Idle
    /\ self.class = "none"
    /\ \E beta \in BetaValues, is_warm_up \in BOOLEAN, psg_num \in 1..MaxPsg :
         LET kwargs == [beta |-> beta, is_warm_up |-> is_warm_up, psg_num |-> psg_num]
             r == additional_init(kwargs)
         IN  /\ op' = "_additional_init"
             /\ args' = kwargs
             /\ raised' = r.raised
             /\ ret' = PyNone
             /\ self' = IF r.raised = "none" THEN r.value ELSE self

\* head(input_ids=..., labels=..., classes=..., return_dict=...)
DoForward ==
    /\ Idle
    /\ self.class = "LlamaForRear"
    /\ \E input_ids \in ForwardBatches, labels \in LabelArgs, return_dict \in BOOLEAN :
         \E classes \in ClassArgs(Cardinality(DOMAIN input_ids)) :
           LET r == forward(self, input_ids, labels, classes, return_dict)
           IN  /\ op' = "forward"
               /\ args' = [input_ids |-> input_ids, labels |-> labels,
                           classes |-> classes, return_dict |-> return_dict]
               /\ raised' = r.raised
               /\ ret' = r.value
               /\ UNCHANGED self

\* head.ans(outputs=..., labels=...)
DoAns ==
    /\ Idle
    /\ self.class = "LlamaForRear"
    /\ \E n \in 1..MaxSeqs, labels \in LabelArgs :
         LET hidden_states == model([b \in 0..n - 1 |-> [t \in Positions |-> gen_score_id]])
             r == ans(self, hidden_states, labels)
         IN  /\ op' = "ans"
             /\ args' = [hidden_states |-> hidden_states, labels |-> labels]
             /\ raised' = r.raised
             /\ ret' = r.value
             /\ UNCHANGED self

\* head.rel_eval(input_ids=..., outputs=..., classes=...)
DoRelEval ==
    /\ Idle
    /\ self.class = "LlamaForRear"
    /\ \E input_ids \in RelEvalBatches :
         \E classes \in ClassArgs(Cardinality(DOMAIN input_ids)) :
           LET hidden_states == model(input_ids)
               r == rel_eval(self, input_ids, hidden_states, classes)
           IN  /\ op' = "rel_eval"
               /\ args' = [input_ids |-> input_ids, hidden_states |-> hidden_states,
                           classes |-> classes]
               /\ raised' = r.raised
               /\ ret' = r.value
               /\ UNCHANGED self

\* the caller takes the result (or the exception); the object stays
Return ==
    /\ ~Idle
    /\ op' = "none"
    /\ args' = NoArgs
    /\ raised' = "none"
    /\ ret' = PyNone
    /\ UNCHANGED self

Next ==
    \/ LossForRankInit
    \/ LossForRankCall
    \/ LossForRankCoarse
    \/ AdditionalInit
    \/ DoForward
    \/ DoAns
    \/ DoRelEval
    \/ Return

Spec == Init /\ [][Next]_vars

\* ------------------------------------------------------------ properties

\* the batch of the last call of the ranking loss, read group by group
GroupsOfCall == 0..(Len(args.labels) \div self.psg_num) - 1
InGroup == 0..self.psg_num - 1
LabelAt(g, i) == args.labels[g * self.psg_num + i + 1]
ScoreAt(g, i) == args.scores[g * self.psg_num + i + 1]
Finite(a) == a.k = "num"
\* a - b > c for three fractions, by cross-multiplication
GapExceeds(a, b, c) == (a.n * b.d - b.n * a.d) * c.d > c.n * a.d * b.d
Called == op = "LossForRank.__call__" /\ raised = "none"

\* the index of the first occurrence of tok in row, 0 when it does not occur
FirstOccurrence(row, tok) ==
    IF \E t \in DOMAIN row : row[t] = tok
    THEN CHOOSE t \in DOMAIN row : row[t] = tok /\ \A u \in DOMAIN row : u < t => row[u] # tok
    ELSE 0

\* C1: in combined mode a forward call given generation labels and relevance
\* labels (a whole number of groups), asked for a result object, does not
\* raise, its loss is generation_loss + beta * relevance_loss, and the result
\* carries the generation logits and the relevance scores.
C1_CombinedLoss ==
    (/\ op = "forward"
     /\ self.beta # PyNone
     /\ args.return_dict
     /\ args.labels.given
     /\ args.classes.given
     /\ Len(args.classes.data) % self.rel_eval_fn.psg_num = 0)
    => /\ raised = "none"
       /\ ret.loss = FAdd(args.labels.ce,
                          FMul(self.beta,
                               call(self.rel_eval_fn,
                                    [i \in 1..Len(args.classes.data) |->
                                       rel_score(self.rel_score,
                                                 <<i - 1, FirstOccurrence(args.input_ids[i - 1],
                                                                          self.gen_score_id)>>)[0]],
                                    args.classes.data).value.loss))
       /\ ret.logits = Tensor("lm_head", model(args.input_ids))
       /\ ret.rel_scores.given

\* C2: in score-only mode rel_eval does not raise and, in every sequence b, the
\* override logits are +100 at b's sentinel position on the relevant token
\* (score above threshold) or the irrelevant token (otherwise), and -100 at
\* every other entry.
C2_OverrideLogits ==
    (op = "rel_eval" /\ self.beta = PyNone)
    => /\ raised = "none"
       /\ \A b \in DOMAIN args.input_ids :
            LET p == FirstOccurrence(args.input_ids[b], self.gen_score_id)
                score == rel_score(self.rel_score, args.hidden_states[b][p])[0]
                token == IF score > self.threshold THEN self.rel_token_id
                         ELSE self.irr_token_id
            IN  \A t \in DOMAIN ret.out.logits.data[b] :
                  \A v \in DOMAIN ret.out.logits.data[b][t] :
                    ret.out.logits.data[b][t][v] = IF t = p /\ v = token THEN 100 ELSE -100

\* C3: rel_eval gathers, for every sequence b, the hidden state of b at the
\* index of the first occurrence of the generation-score token in b, at index 0
\* when the token does not occur, and the score of b is the projection of that
\* vector.
C3_GatherAtSentinel ==
    (op = "rel_eval" /\ raised = "none")
    => \A b \in DOMAIN args.input_ids :
         LET p == FirstOccurrence(args.input_ids[b], self.gen_score_id)
         IN  /\ ret.rel_position[b] = p
             /\ ret.rel_hidden_states[b] = <<b, p>>
             /\ ret.rel_hidden_states[b] = args.hidden_states[b][p]
             /\ ret.out.rel_scores.data[b][0] =
                   rel_score_weight[1] * b + rel_score_weight[2] * p

C3_Witness ==
    /\ op = "rel_eval"
    /\ raised = "none"
    /\ DOMAIN args.input_ids = 0..1
    /\ args.input_ids[0] = [t \in Positions |-> IF t = 0 THEN 1 ELSE gen_score_id]
    /\ \A t \in Positions : args.input_ids[1][t] # gen_score_id
    /\ ret.rel_position[0] = 1
    /\ ret.rel_position[1] = 0
    /\ ret.rel_hidden_states[1] = <<1, 0>>

\* C4: a ranking loss constructed with warm-up on is constructed without
\* error, and evaluating it returns the pointwise term alone.
C4_WarmUpPointwise ==
    /\ (op = "LossForRank.__init__" /\ args.is_warm_up)
       => raised = "none" /\ self.class = "LossForRank"
    /\ (op = "LossForRank.__call__" /\ self.loss_fn # "bi")
       => raised = "none" /\ ret.loss = coarse(self, args.scores, args.labels).value.loss

\* C5: when every label is a grade and no gap between two labels of a group
\* exceeds the minor-difference threshold, the evaluation in full mode does not
\* raise, the pairwise term is 0 and the result is coarse_weight * Pointwise.
C5_AllFilteredIsZero ==
    (/\ op = "LossForRank.__call__"
     /\ Len(args.labels) % self.psg_num = 0
     /\ \A g \in GroupsOfCall : \A i, j \in InGroup :
          /\ Finite(LabelAt(g, i))
          /\ ~GapExceeds(LabelAt(g, i), LabelAt(g, j), self.ignore_minor_diff))
    => /\ raised = "none"
       /\ ret.fine.loss = Zero
       /\ ret.loss = FMul(self.bce_bias, ret.coarse.loss)

\* C6: constructing the head succeeds and leaves it with a ranking loss whose
\* group size, negative-class weight, minor-difference threshold and coarse
\* weight are the values passed to the head.
C6_HeadConstruction ==
    op = "_additional_init"
    => /\ raised = "none"
       /\ self.class = "LlamaForRear"
       /\ self.rel_eval_fn.psg_num = args.psg_num
       /\ self.rel_eval_fn.bias = AdditionalInitDefaults.bias
       /\ self.rel_eval_fn.ignore_minor_diff = AdditionalInitDefaults.ignore_mirror_diff
       /\ self.rel_eval_fn.bce_bias = AdditionalInitDefaults.bce_bias

\* C7: a forward call given neither generation labels nor relevance labels
\* does not raise and returns a result whose loss is None.  Stated here for
\* combined mode and for the generation-only branch of score-only mode; the
\* relevance-only branch is the call of rel_eval that C2 is about.
C7_NoLabelsLossNone ==
    (/\ op = "forward"
     /\ ~args.labels.given
     /\ ~args.classes.given
     /\ \/ self.beta # PyNone
        \/ \E t \in Positions :
             args.input_ids[0][t] \in {self.rel_token_id, self.irr_token_id})
    => raised = "none" /\ ret.loss = PyNone

\* C8: the pairwise term is computed over exactly the ordered pairs (i, j) of
\* positions of one group whose labels are both grades (neither is the
\* no-signal value) with label[i] - label[j] above the minor-difference
\* threshold, each once; a kept pair contributes score[i] - score[j] with
\* target 1 if label[i] - label[j] > 0 and 0 otherwise.
C8_PairwisePairs ==
    Called
    => LET kept == {e \in GroupsOfCall \X InGroup \X InGroup :
                      /\ Finite(LabelAt(e[1], e[2]))
                      /\ Finite(LabelAt(e[1], e[3]))
                      /\ GapExceeds(LabelAt(e[1], e[2]), LabelAt(e[1], e[3]),
                                    self.ignore_minor_diff)}
           pairs == ret.fine.pairs
       IN  /\ {pairs[c] : c \in 1..Len(pairs)} = kept
           /\ Len(pairs) = Cardinality(kept)
           /\ Len(ret.fine.pred_diffs) = Len(pairs)
           /\ Len(ret.fine.true_diffs) = Len(pairs)
           /\ \A c \in 1..Len(pairs) :
                /\ ret.fine.pred_diffs[c] =
                      ScoreAt(pairs[c][1], pairs[c][2]) - ScoreAt(pairs[c][1], pairs[c][3])
                /\ ret.fine.true_diffs[c] =
                      IF GapExceeds(LabelAt(pairs[c][1], pairs[c][2]),
                                    LabelAt(pairs[c][1], pairs[c][3]), Zero)
                      THEN 1 ELSE 0

C8_Witness ==
    /\ Called
    /\ self.psg_num = 2
    /\ self.ignore_minor_diff = Num(-1, 2)
    /\ args.labels = <<Num(1, 1), Half, NegInf, Zero>>
    /\ ret.fine.pairs = <<<<0, 0, 0>>, <<0, 0, 1>>, <<0, 1, 1>>, <<1, 1, 1>>>>
    /\ ret.fine.true_diffs = <<0, 1, 0, 0>>

\* C9: in the pointwise term, an all-positive batch (every label >= 0.5) gives
\* the sum of the per-example losses against target 1 divided by the batch
\* size, an all-negative batch gives negative_bias times the sum of the
\* per-example losses against target 0 divided by the batch size, and the
\* computation does not raise.
C9_PointwiseGuards ==
    op = "LossForRank.coarse"
    => LET n == Len(args.scores)
           Positive(a) == a = PosInf \/ (Finite(a) /\ 2 * a.n >= a.d)
       IN  /\ raised = "none"
           /\ (\A i \in 1..n : Positive(args.labels[i]))
              => ret.loss = FDiv(FSum([i \in 1..n |-> BceWithLogits(args.scores[i], 1)]), n)
           /\ (\A i \in 1..n : ~Positive(args.labels[i]))
              => ret.loss = FDiv(FMul(self.bias,
                                      FSum([i \in 1..n |-> BceWithLogits(args.scores[i], 0)])),
                                 n)

C9_Witness ==
    /\ op = "LossForRank.coarse"
    /\ raised = "none"
    /\ args.scores = <<1, 2, 3>>
    /\ args.labels = <<Zero, NegInf, Zero>>
    /\ self.bias = Num(2, 5)
    /\ ret.loss = Num(6489, 7500)

\* C10: with a minor-difference threshold >= 0 the kept pairs hold no
\* self-pair, at most one of the two orders of any two positions of a group,
\* and every kept pair has target 1.
C10_NoDoubleCount ==
    (Called /\ FGe(self.ignore_minor_diff, Zero))
    => LET pairs == ret.fine.pairs
       IN  \A c \in 1..Len(pairs) :
             /\ pairs[c][2] # pairs[c][3]
             /\ ret.fine.true_diffs[c] = 1
             /\ \A e \in 1..Len(pairs) :
                  pairs[e] # <<pairs[c][1], pairs[c][3], pairs[c][2]>>

C10_Witness ==
    /\ Called
    /\ self.ignore_minor_diff = Zero
    /\ self.psg_num = 2
    /\ args.labels = <<Zero, Num(1, 1), Half, Zero>>
    /\ ret.fine.pairs = <<<<0, 1, 0>>, <<1, 0, 1>>>>

====
